---- MODULE Spec2Model ----
(***************************************************************************)
(* NuScenesSRDataloader (src/dataloader.py): an in-memory corpus of        *)
(* labelled scenes with label queries, statistics, random sampling, a      *)
(* train/val/test split and a labels-only export.                          *)
(*                                                                         *)
(* Python values are modelled as follows.  A list is a sequence.  A dict   *)
(* is the sequence of its items <<key, value>> in insertion order, keys    *)
(* unique.  Optional[T] is <<>> for None and <<x>> for the value x.  A     *)
(* float ratio is the rational num / RatioDen and is carried as num, so    *)
(* the model does not cover binary floating-point rounding.  The module    *)
(* level generator of `random` is one hidden state; seed, shuffle and      *)
(* sample are the CPython algorithms over an abstract step function.       *)
(***************************************************************************)
EXTENDS Integers, Sequences, FiniteSets, TLC

\* data, scene_tokens: the loader's fields.  rng: the generator of module random.
\* files: the documents written, by path.  pc, call, ret: whether a call has
\* returned to the caller, which call, and what it returned or raised.
\* lastSeeded, key, ref: history of the seeded draws (see TrackDraw).
VARIABLES data, scene_tokens, rng, files, pc, call, ret, lastSeeded, key, ref

vars == <<data, scene_tokens, rng, files, pc, call, ret, lastSeeded, key, ref>>

(***************************************************************************)
(* Bounds of the model.                                                    *)
(***************************************************************************)
MaxScenes == 2
MaxQuery == 2
MaxSeed == 1
RngMod == 8
RatioDen == 2

(***************************************************************************)
(* Program constants.                                                      *)
(***************************************************************************)
DYNAMIC_SCENES ==
    <<"PED_CROSSING", "LEFT_TURN", "RIGHT_TURN", "CONSTRUCTION_VEHICLE",
      "AVOID_STATIONARY">>

STATIC_SCENES ==
    <<"INTERSECTION", "PARKING_LOT", "TRAFFIC_LIGHT", "RAINY_WEATHER",
      "CONSTRUCTION_ZONE">>

ALL_SCENES == DYNAMIC_SCENES \o STATIC_SCENES

RatioTolInv == 1000000

(***************************************************************************)
(* Python helpers.                                                         *)
(***************************************************************************)
None == <<>>

Some(x) == <<x>>

Range(s) == {s[i] : i \in DOMAIN s}

In(x, s) == \E i \in DOMAIN s : s[i] = x

Min(a, b) == IF a <= b THEN a ELSE b

Abs(x) == IF x < 0 THEN -x ELSE x

Ok(v) == [status |-> "ok", value |-> v]

Raise(e) == [status |-> e, value |-> <<>>]

\* dict: key in d, d[key], d.get(key), d.keys(), d[key] = value
HasKey(d, k) == \E i \in DOMAIN d : d[i][1] = k

Lookup(d, k) == d[CHOOSE i \in DOMAIN d : d[i][1] = k][2]

DictGet(d, k) == IF HasKey(d, k) THEN Some(Lookup(d, k)) ELSE None

Keys(d) == [i \in DOMAIN d |-> d[i][1]]

DictSet(d, k, v) ==
    IF HasKey(d, k)
    THEN [i \in DOMAIN d |-> IF d[i][1] = k THEN <<k, v>> ELSE d[i]]
    ELSE Append(d, <<k, v>>)

\* int(n * num / RatioDen): truncation toward zero
IntOfProduct(n, num) ==
    IF n * num >= 0 THEN (n * num) \div RatioDen
    ELSE -((-(n * num)) \div RatioDen)

\* s[lo:hi] with Python's handling of negative and out-of-range bounds
ClipIndex(len, i) ==
    IF i < 0 THEN (IF i + len < 0 THEN 0 ELSE i + len)
    ELSE (IF i > len THEN len ELSE i)

PySlice(s, lo, hi) ==
    LET a == ClipIndex(Len(s), lo)
        b == ClipIndex(Len(s), hi)
    IN IF a < b THEN SubSeq(s, a + 1, b) ELSE <<>>

(***************************************************************************)
(* The generator of module `random`.                                       *)
(***************************************************************************)
RngStates == 0 .. (RngMod - 1)

RandomSeed(s) == (3 * s + 1) % RngMod

RngStep(g) == (5 * g + 3) % RngMod

\* _randbelow(n): one draw in 0 .. n-1 and the state after it
Randbelow(g, n) == [val |-> RngStep(g) % n, rng |-> RngStep(g)]

Swap(x, i, j) == [x EXCEPT ![i] = x[j], ![j] = x[i]]

\* random.shuffle: for i in reversed(range(1, len(x))): j = randbelow(i + 1);
\* x[i], x[j] = x[j], x[i].  Python index i is position i + 1 here.
RECURSIVE ShuffleFrom(_, _, _)
ShuffleFrom(x, g, i) ==
    IF i < 1 THEN [list |-> x, rng |-> g]
    ELSE LET r == Randbelow(g, i + 1)
         IN ShuffleFrom(Swap(x, i + 1, r.val + 1), r.rng, i - 1)

RandomShuffle(x, g) == ShuffleFrom(x, g, Len(x) - 1)

\* random.sample, pool branch: for i in range(k): j = randbelow(n - i);
\* result[i] = pool[j]; pool[j] = pool[n - i - 1]
RECURSIVE SampleFrom(_, _, _, _, _)
SampleFrom(pool, g, i, k, result) ==
    IF i >= k THEN [list |-> result, rng |-> g]
    ELSE LET n == Len(pool)
             r == Randbelow(g, n - i)
         IN SampleFrom([pool EXCEPT ![r.val + 1] = pool[n - i]], r.rng, i + 1, k,
                       Append(result, pool[r.val + 1]))

RandomSample(population, k, g) ==
    IF k < 0 \/ k > Len(population)
    THEN [status |-> "ValueError", list |-> <<>>, rng |-> g]
    ELSE [status |-> "ok"] @@ SampleFrom(population, g, 0, k, <<>>)

(***************************************************************************)
(* json.dump / json.load of the export document.  The text is the sequence *)
(* of its lexemes (indentation is not modelled): punctuation and string    *)
(* literals.                                                               *)
(***************************************************************************)
Punct(c) == [t |-> c, v |-> ""]

Str(s) == [t |-> "string", v |-> s]

RECURSIVE JsonArrayItems(_, _)
JsonArrayItems(list, i) ==
    IF i > Len(list) THEN <<>>
    ELSE (IF i > 1 THEN <<Punct(",")>> ELSE <<>>) \o <<Str(list[i])>>
         \o JsonArrayItems(list, i + 1)

JsonArray(list) == <<Punct("[")>> \o JsonArrayItems(list, 1) \o <<Punct("]")>>

RECURSIVE JsonMembers(_, _)
JsonMembers(d, i) ==
    IF i > Len(d) THEN <<>>
    ELSE (IF i > 1 THEN <<Punct(",")>> ELSE <<>>)
         \o <<Str(d[i][1]), Punct(":")>> \o JsonArray(d[i][2])
         \o JsonMembers(d, i + 1)

JsonDump(d) == <<Punct("{")>> \o JsonMembers(d, 1) \o <<Punct("}")>>

\* the array whose items start at lexeme i; next is the lexeme after "]"
RECURSIVE JsonParseArray(_, _, _)
JsonParseArray(lex, i, acc) ==
    IF lex[i].t = "]" THEN [v |-> acc, next |-> i + 1]
    ELSE IF lex[i].t = "," THEN JsonParseArray(lex, i + 1, acc)
    ELSE JsonParseArray(lex, i + 1, Append(acc, lex[i].v))

\* the members starting at lexeme i; a repeated key keeps its last value
RECURSIVE JsonParseMembers(_, _, _)
JsonParseMembers(lex, i, acc) ==
    IF lex[i].t = "}" THEN acc
    ELSE IF lex[i].t = "," THEN JsonParseMembers(lex, i + 1, acc)
    ELSE LET arr == JsonParseArray(lex, i + 3, <<>>)
         IN JsonParseMembers(lex, arr.next, DictSet(acc, lex[i].v, arr.v))

JsonLoad(lex) == JsonParseMembers(lex, 2, <<>>)

(***************************************************************************)
(* The methods of NuScenesSRDataloader.  d is self.data, tokens is         *)
(* self.scene_tokens, g the state of the generator.                        *)
(***************************************************************************)
get_scene_data(d, scene_token) == Ok(DictGet(d, scene_token))

get_scenes_by_label(d, label) ==
    IF ~In(label, ALL_SCENES) THEN Raise("ValueError")
    ELSE Ok(SelectSeq(d, LAMBDA item : In(label, item[2].labels)))

\* the "all" branch testing for a common label, as the "any" branch does
LabelsMatchAllAsAny(scene, labels, mode) ==
    LET scene_labels == Range(scene)
        target_labels == Range(labels)
    IN \/ mode = "any" /\ scene_labels \cap target_labels # {}
       \/ mode = "all" /\ scene_labels \cap target_labels # {}

LabelsMatch(scene, labels, mode) ==
    LET scene_labels == Range(scene)
        target_labels == Range(labels)
    IN \/ mode = "any" /\ scene_labels \cap target_labels # {}
       \/ mode = "all" /\ target_labels \subseteq scene_labels

\* only the first label is validated
get_scenes_by_labels_first_checked(d, labels, mode) ==
    IF labels # <<>> /\ ~In(labels[1], ALL_SCENES)
    THEN Raise("ValueError")
    ELSE Ok(SelectSeq(d, LAMBDA item : LabelsMatch(item[2].labels, labels, mode)))

get_scenes_by_labels(d, labels, mode) ==
    IF \E i \in DOMAIN labels : ~In(labels[i], ALL_SCENES)
    THEN Raise("ValueError")
    ELSE Ok(SelectSeq(d, LAMBDA item : LabelsMatch(item[2].labels, labels, mode)))

get_dynamic_scenes(d) == get_scenes_by_labels(d, DYNAMIC_SCENES, "any")

get_static_scenes(d) == get_scenes_by_labels(d, STATIC_SCENES, "any")

\* Counter: counter[key] += 1
CounterAdd(c, k) == DictSet(c, k, IF HasKey(c, k) THEN Lookup(c, k) + 1 ELSE 1)

RECURSIVE CountLabels(_, _, _)
CountLabels(labels, i, c) ==
    IF i > Len(labels) THEN c
    ELSE CountLabels(labels, i + 1, CounterAdd(c, labels[i]))

RECURSIVE LabelCounts(_, _, _)
LabelCounts(d, i, c) ==
    IF i > Len(d) THEN c
    ELSE LabelCounts(d, i + 1, CountLabels(d[i][2].labels, 1, c))

\* for label in set(data["labels"]): a repeated label counted once per record
RECURSIVE LabelCountsOncePerRecord(_, _, _)
LabelCountsOncePerRecord(d, i, c) ==
    IF i > Len(d) THEN c
    ELSE LET labels == d[i][2].labels
             firsts == SelectSeq([j \in DOMAIN labels |-> <<j, labels[j]>>],
                                 LAMBDA x : \A j \in 1 .. (x[1] - 1) : labels[j] # x[2])
         IN LabelCountsOncePerRecord(d, i + 1,
                CountLabels([j \in DOMAIN firsts |-> firsts[j][2]], 1, c))

get_label_statistics_once_per_record(d) == Ok(LabelCountsOncePerRecord(d, 1, <<>>))

get_label_statistics(d) == Ok(LabelCounts(d, 1, <<>>))

RECURSIVE MultiLabelCounts(_, _, _)
MultiLabelCounts(d, i, c) ==
    IF i > Len(d) THEN c
    ELSE MultiLabelCounts(d, i + 1, CounterAdd(c, Len(d[i][2].labels)))

get_multi_label_statistics(d) == Ok(MultiLabelCounts(d, 1, <<>>))

\* n is passed to random.sample without min(n, len(self.scene_tokens))
sample_scenes_no_min(d, tokens, g, n, random_seed) ==
    LET g1 == IF random_seed # None THEN RandomSeed(random_seed[1]) ELSE g
        s == RandomSample(tokens, n, g1)
    IN IF s.status # "ok" THEN [ret |-> Raise("ValueError"), rng |-> g1]
       ELSE [ret |-> Ok([i \in DOMAIN s.list |-> <<s.list[i], Lookup(d, s.list[i])>>]),
             rng |-> s.rng]

\* `if random_seed:` in place of `if random_seed is not None:`: seed 0 is ignored
sample_scenes_seed_truthy(d, tokens, g, n, random_seed) ==
    LET g1 == IF random_seed # None /\ random_seed[1] # 0
              THEN RandomSeed(random_seed[1]) ELSE g
        s == RandomSample(tokens, Min(n, Len(tokens)), g1)
    IN IF s.status # "ok" THEN [ret |-> Raise("ValueError"), rng |-> g1]
       ELSE [ret |-> Ok([i \in DOMAIN s.list |-> <<s.list[i], Lookup(d, s.list[i])>>]),
             rng |-> s.rng]

sample_scenes(d, tokens, g, n, random_seed) ==
    LET g1 == IF random_seed # None THEN RandomSeed(random_seed[1]) ELSE g
        s == RandomSample(tokens, Min(n, Len(tokens)), g1)
    IN IF s.status # "ok" THEN [ret |-> Raise("ValueError"), rng |-> g1]
       ELSE [ret |-> Ok([i \in DOMAIN s.list |-> <<s.list[i], Lookup(d, s.list[i])>>]),
             rng |-> s.rng]

\* random.shuffle(self.scene_tokens): the shuffle without the copy
split_dataset_in_place(tokens, g, train_ratio, val_ratio, test_ratio, random_seed) ==
    IF Abs(train_ratio + val_ratio + test_ratio - RatioDen) * RatioTolInv > RatioDen
    THEN [ret |-> Raise("ValueError"), rng |-> g, scene_tokens |-> tokens]
    ELSE LET g1 == IF random_seed # None THEN RandomSeed(random_seed[1]) ELSE g
             sh == RandomShuffle(tokens, g1)
             shuffled_tokens == sh.list
             total_scenes == Len(shuffled_tokens)
             train_end == IntOfProduct(total_scenes, train_ratio)
             val_end == train_end + IntOfProduct(total_scenes, val_ratio)
         IN [ret |-> Ok(<<PySlice(shuffled_tokens, 0, train_end),
                          PySlice(shuffled_tokens, train_end, val_end),
                          PySlice(shuffled_tokens, val_end, total_scenes)>>),
             rng |-> sh.rng,
             scene_tokens |-> shuffled_tokens]

\* random.seed(random_seed) moved above the check of the ratios
split_dataset_seed_first(tokens, g, train_ratio, val_ratio, test_ratio, random_seed) ==
    LET g1 == IF random_seed # None THEN RandomSeed(random_seed[1]) ELSE g
    IN IF Abs(train_ratio + val_ratio + test_ratio - RatioDen) * RatioTolInv > RatioDen
       THEN [ret |-> Raise("ValueError"), rng |-> g1, scene_tokens |-> tokens]
       ELSE LET sh == RandomShuffle(tokens, g1)
                shuffled_tokens == sh.list
                total_scenes == Len(shuffled_tokens)
                train_end == IntOfProduct(total_scenes, train_ratio)
                val_end == train_end + IntOfProduct(total_scenes, val_ratio)
            IN [ret |-> Ok(<<PySlice(shuffled_tokens, 0, train_end),
                             PySlice(shuffled_tokens, train_end, val_end),
                             PySlice(shuffled_tokens, val_end, total_scenes)>>),
                rng |-> sh.rng,
                scene_tokens |-> tokens]

split_dataset(tokens, g, train_ratio, val_ratio, test_ratio, random_seed) ==
    IF Abs(train_ratio + val_ratio + test_ratio - RatioDen) * RatioTolInv > RatioDen
    THEN [ret |-> Raise("ValueError"), rng |-> g, scene_tokens |-> tokens]
    ELSE LET g1 == IF random_seed # None THEN RandomSeed(random_seed[1]) ELSE g
             sh == RandomShuffle(tokens, g1)
             shuffled_tokens == sh.list
             total_scenes == Len(shuffled_tokens)
             train_end == IntOfProduct(total_scenes, train_ratio)
             val_end == train_end + IntOfProduct(total_scenes, val_ratio)
         IN [ret |-> Ok(<<PySlice(shuffled_tokens, 0, train_end),
                          PySlice(shuffled_tokens, train_end, val_end),
                          PySlice(shuffled_tokens, val_end, total_scenes)>>),
             rng |-> sh.rng,
             scene_tokens |-> tokens]

RECURSIVE LabelsOnly(_, _, _, _)
LabelsOnly(d, req, i, acc) ==
    IF i > Len(req) THEN acc
    ELSE LabelsOnly(d, req, i + 1,
                    IF HasKey(d, req[i])
                    THEN DictSet(acc, req[i], Lookup(d, req[i]).labels)
                    ELSE acc)

\* `if not scene_tokens:` in place of `if scene_tokens is None:`: an empty
\* request exports every scene
export_labels_only_empty_is_all(d, tokens, requested) ==
    LET req == IF requested = None \/ requested[1] = <<>> THEN tokens ELSE requested[1]
    IN [ret |-> Ok(None), written |-> JsonDump(LabelsOnly(d, req, 1, <<>>))]

export_labels_only(d, tokens, requested) ==
    LET req == IF requested = None THEN tokens ELSE requested[1]
    IN [ret |-> Ok(None), written |-> JsonDump(LabelsOnly(d, req, 1, <<>>))]

print_statistics(d) ==
    IF Len(d) = 0 THEN Raise("ZeroDivisionError") ELSE Ok(None)

len(d) == Ok(Len(d))

iter(d, tokens) == Ok([i \in DOMAIN tokens |-> <<tokens[i], Lookup(d, tokens[i])>>])

(***************************************************************************)
(* Inputs.                                                                 *)
(***************************************************************************)
TokenNames == <<"a", "b", "c", "d", "e">>

AbsentToken == "zz"

QueryLabels == {"PED_CROSSING", "INTERSECTION", "NOT_A_LABEL"}

\* label lists of a record as loaded: empty, repeated and unknown labels occur,
\* since load validates nothing
LabelLists ==
    {<<>>, <<"PED_CROSSING">>, <<"INTERSECTION">>, <<"FOG">>,
     <<"PED_CROSSING", "INTERSECTION">>, <<"INTERSECTION", "PED_CROSSING">>,
     <<"PED_CROSSING", "FOG">>, <<"PED_CROSSING", "PED_CROSSING">>}

FewLabelLists ==
    {<<"PED_CROSSING">>, <<"INTERSECTION", "PED_CROSSING">>, <<"FOG", "FOG">>}

Descriptions == {"x"}

Modes == {"any", "all", "first"}

OutputPaths == {"labels.json"}

SeqsUpTo(S, n) == UNION {[1 .. k -> S] : k \in 0 .. n}

Injective(s) == \A i, j \in DOMAIN s : s[i] = s[j] => i = j

Seeds == {None} \cup {Some(s) : s \in 0 .. MaxSeed}

\* sample sizes: negative, zero, below, at and above the corpus size
SampleSizes == -1 .. (MaxScenes + 2)

FewSampleSizes == {-1, 1, MaxScenes}

\* ratios in units of 1 / RatioDen, from -1 to 1 + 1 / RatioDen
RatioNums == -RatioDen .. (RatioDen + 1)

\* test_ratio is only read by the check of the sum: the value that completes
\* the sum to 1 and one that does not
TestRatios(train_ratio, val_ratio) ==
    {RatioDen - train_ratio - val_ratio, RatioDen - train_ratio - val_ratio + 1}

FewRatios ==
    {<<1, RatioDen - 1, 0>>, <<RatioDen, 0, 0>>, <<1, 1, RatioDen>>}

ExportRequests ==
    {None} \cup {Some(x) : x \in SeqsUpTo({"a", "b", AbsentToken}, MaxQuery)}

\* the key orders of a document of up to n scenes named by the first n names
AnyOrder(n) ==
    {s \in SeqsUpTo({TokenNames[i] : i \in 1 .. n}, n) : Injective(s)}

NameOrder(n) == {SubSeq(TokenNames, 1, k) : k \in 0 .. n}

\* the documents __init__ can load
Corpora(keys, labelLists) ==
    LET records == [labels : labelLists, description : Descriptions]
    IN UNION {{[i \in DOMAIN k |-> <<k[i], r[i]>>] : r \in [DOMAIN k -> records]} : k \in keys}

(***************************************************************************)
(* __init__: self.data = json.load(...), self.scene_tokens = its keys.     *)
(***************************************************************************)
InitWith(corpora) ==
    /\ data \in corpora
    /\ scene_tokens = Keys(data)
    /\ rng \in RngStates
    /\ files = [p \in OutputPaths |-> None]
    /\ pc = "idle"
    /\ call = None
    /\ ret = None
    /\ lastSeeded = None
    /\ key = None
    /\ ref = None

Init == InitWith(Corpora(AnyOrder(MaxScenes), FewLabelLists))

(***************************************************************************)
(* One action per method: the caller invokes it and it returns or raises.  *)
(***************************************************************************)
Returns(c, r) ==
    /\ pc = "idle"
    /\ pc' = "returned"
    /\ call' = c
    /\ ret' = r

Reads == UNCHANGED <<data, scene_tokens, rng, files>>

NoTrack == UNCHANGED <<lastSeeded, key, ref>>

GetSceneData(scene_token) ==
    /\ Returns([op |-> "get_scene_data", args |-> <<scene_token>>],
               get_scene_data(data, scene_token))
    /\ Reads /\ NoTrack

GetScenesByLabel(label) ==
    /\ Returns([op |-> "get_scenes_by_label", args |-> <<label>>],
               get_scenes_by_label(data, label))
    /\ Reads /\ NoTrack

GetScenesByLabels(labels, mode) ==
    /\ Returns([op |-> "get_scenes_by_labels", args |-> <<labels, mode>>],
               get_scenes_by_labels(data, labels, mode))
    /\ Reads /\ NoTrack

GetDynamicScenes ==
    /\ Returns([op |-> "get_dynamic_scenes", args |-> <<>>], get_dynamic_scenes(data))
    /\ Reads /\ NoTrack

GetStaticScenes ==
    /\ Returns([op |-> "get_static_scenes", args |-> <<>>], get_static_scenes(data))
    /\ Reads /\ NoTrack

GetLabelStatistics ==
    /\ Returns([op |-> "get_label_statistics", args |-> <<>>], get_label_statistics(data))
    /\ Reads /\ NoTrack

GetMultiLabelStatistics ==
    /\ Returns([op |-> "get_multi_label_statistics", args |-> <<>>],
               get_multi_label_statistics(data))
    /\ Reads /\ NoTrack

PrintStatistics ==
    /\ Returns([op |-> "print_statistics", args |-> <<>>], print_statistics(data))
    /\ Reads /\ NoTrack

LenOf ==
    /\ Returns([op |-> "__len__", args |-> <<>>], len(data))
    /\ Reads /\ NoTrack

Iterate ==
    /\ Returns([op |-> "__iter__", args |-> <<>>], iter(data, scene_tokens))
    /\ Reads /\ NoTrack

SampleCall(n, random_seed) ==
    [op |-> "sample_scenes", args |-> <<n>>, seed |-> random_seed]

SampleScenes(n, random_seed) ==
    LET r == sample_scenes(data, scene_tokens, rng, n, random_seed)
    IN /\ Returns(SampleCall(n, random_seed), r.ret)
       /\ rng' = r.rng
       /\ UNCHANGED <<data, scene_tokens, files>>

SplitCall(train_ratio, val_ratio, test_ratio, random_seed) ==
    [op |-> "split_dataset", args |-> <<train_ratio, val_ratio, test_ratio>>,
     seed |-> random_seed]

SplitDataset(train_ratio, val_ratio, test_ratio, random_seed) ==
    LET r == split_dataset(scene_tokens, rng, train_ratio, val_ratio, test_ratio,
                           random_seed)
    IN /\ Returns(SplitCall(train_ratio, val_ratio, test_ratio, random_seed), r.ret)
       /\ rng' = r.rng
       /\ scene_tokens' = r.scene_tokens
       /\ UNCHANGED <<data, files>>

ExportLabelsOnly(output_path, requested) ==
    LET r == export_labels_only(data, scene_tokens, requested)
    IN /\ Returns([op |-> "export_labels_only", args |-> <<output_path, requested>>],
                  r.ret)
       /\ files' = [files EXCEPT ![output_path] = Some(r.written)]
       /\ UNCHANGED <<data, scene_tokens, rng>>
       /\ NoTrack

\* the caller takes the result and is ready for its next call
Return ==
    /\ pc = "returned"
    /\ pc' = "idle"
    /\ call' = None
    /\ ret' = None
    /\ key' = None
    /\ ref' = IF ref = None THEN None ELSE Some([ref[1] EXCEPT !.fresh = FALSE])
    /\ UNCHANGED <<data, scene_tokens, rng, files, lastSeeded>>

(***************************************************************************)
(* History of the seeded draws.  c is the draw call, r what it returned.   *)
(* A split rejected for its ratios raises before it seeds or draws and is  *)
(* no draw.  key names what the spec lets a result depend on: <<c>> for a  *)
(* seeded call c, <<c0, c>> for an unseeded call c made directly after the *)
(* seeded call c0.  ref remembers the result of one keyed call; it is      *)
(* fresh until that call has returned to the caller.                       *)
(***************************************************************************)
TrackDraw(c, r) ==
    LET rejected == c.op = "split_dataset" /\ r.status # "ok"
        k == IF rejected THEN None
             ELSE IF c.seed # None THEN <<c>>
             ELSE IF lastSeeded # None THEN <<lastSeeded[1], c>>
             ELSE None
    IN /\ key' = k
       /\ lastSeeded' = IF rejected THEN lastSeeded
                        ELSE IF c.seed # None THEN Some(c) ELSE None
       /\ ref' \in {ref} \cup (IF k = None THEN {}
                               ELSE {Some([key |-> k, ret |-> r, fresh |-> TRUE])})

TrackedSample(n, s) ==
    SampleScenes(n, s) /\ TrackDraw(SampleCall(n, s), ret')

TrackedSplit(tr, vr, te, s) ==
    SplitDataset(tr, vr, te, s) /\ TrackDraw(SplitCall(tr, vr, te, s), ret')

(***************************************************************************)
(* Spec: every method, on small inputs.                                    *)
(***************************************************************************)
Next ==
    \/ \E t \in {"a", AbsentToken} : GetSceneData(t)
    \/ \E l \in QueryLabels : GetScenesByLabel(l)
    \/ \E ls \in SeqsUpTo(QueryLabels, 1), m \in Modes : GetScenesByLabels(ls, m)
    \/ GetDynamicScenes
    \/ GetStaticScenes
    \/ GetLabelStatistics
    \/ GetMultiLabelStatistics
    \/ PrintStatistics
    \/ LenOf
    \/ Iterate
    \/ \E n \in FewSampleSizes, s \in Seeds : SampleScenes(n, s) /\ NoTrack
    \/ \E r \in FewRatios, s \in Seeds : SplitDataset(r[1], r[2], r[3], s) /\ NoTrack
    \/ \E p \in OutputPaths, ts \in ExportRequests : ExportLabelsOnly(p, ts)
    \/ Return

Spec == Init /\ [][Next]_vars

(***************************************************************************)
(* SpecQuery: the queries and the statistics, on every corpus of up to     *)
(* MaxScenes scenes with label lists of LabelLists.  No method here reads  *)
(* the generator, which starts freshly seeded.                             *)
(***************************************************************************)
InitQuery ==
    /\ InitWith(Corpora(AnyOrder(MaxScenes), LabelLists))
    /\ rng = RandomSeed(0)

NextQuery ==
    \/ \E t \in {"a", "b", AbsentToken} : GetSceneData(t)
    \/ \E l \in QueryLabels : GetScenesByLabel(l)
    \/ \E ls \in SeqsUpTo(QueryLabels, MaxQuery), m \in Modes : GetScenesByLabels(ls, m)
    \/ GetDynamicScenes
    \/ GetStaticScenes
    \/ GetLabelStatistics
    \/ GetMultiLabelStatistics
    \/ LenOf
    \/ Iterate
    \/ Return

SpecQuery == InitQuery /\ [][NextQuery]_vars

(***************************************************************************)
(* SpecDraw: sample and split on corpora of 0 .. MaxScenes + 2 scenes,     *)
(* from every state of the generator.                                      *)
(***************************************************************************)
InitDraw == InitWith(Corpora(NameOrder(MaxScenes + 2), {<<"PED_CROSSING">>}))

NextDraw ==
    \/ \E n \in SampleSizes, s \in Seeds : SampleScenes(n, s) /\ NoTrack
    \/ \E tr, vr \in RatioNums, s \in Seeds :
          \E te \in TestRatios(tr, vr) : SplitDataset(tr, vr, te, s) /\ NoTrack
    \/ Return

SpecDraw == InitDraw /\ [][NextDraw]_vars

(***************************************************************************)
(* SpecRng: seeded and unseeded draws in any order, with queries and       *)
(* exports between them, and the history of TrackDraw.                     *)
(***************************************************************************)
InitRng == InitWith(Corpora(NameOrder(MaxScenes + 1), {<<"PED_CROSSING">>}))

NextRng ==
    \/ \E n \in FewSampleSizes, s \in Seeds : TrackedSample(n, s)
    \/ \E r \in FewRatios, s \in Seeds : TrackedSplit(r[1], r[2], r[3], s)
    \/ GetScenesByLabel("PED_CROSSING")
    \/ ExportLabelsOnly("labels.json", None)
    \/ Return

SpecRng == InitRng /\ [][NextRng]_vars

(***************************************************************************)
(* Properties.                                                             *)
(***************************************************************************)
Returned(op) == pc = "returned" /\ call.op = op

Concat3(t) == t[1] \o t[2] \o t[3]

\* C1: every split that is accepted (the ratios sum to 1) returns three
\* sequences that are pairwise disjoint, whose union is the corpus token set
\* and whose lengths sum to the corpus size.
C1_SplitPartitionsTokens ==
    Returned("split_dataset") /\ ret.status = "ok" =>
        /\ Len(Concat3(ret.value)) = Len(scene_tokens)
        /\ Injective(Concat3(ret.value))
        /\ Range(Concat3(ret.value)) = Range(scene_tokens)

\* C3: every accepted split of N tokens has |train| = floor(N * trainRatio),
\* |val| = floor(N * valRatio) and |test| = N - |train| - |val|.
C3_SplitSizesAreFloors ==
    Returned("split_dataset") /\ ret.status = "ok" =>
        LET N == Len(scene_tokens)
            trainSize == (N * call.args[1]) \div RatioDen
            valSize == (N * call.args[2]) \div RatioDen
        IN /\ Len(ret.value[1]) = trainSize
           /\ Len(ret.value[2]) = valSize
           /\ Len(ret.value[3]) = N - trainSize - valSize

\* the pairs are distinct corpus tokens, each with its own record
DistinctOwnPairs(pairs) ==
    /\ \A i, j \in DOMAIN pairs : pairs[i][1] = pairs[j][1] => i = j
    /\ \A i \in DOMAIN pairs : \E j \in DOMAIN data : data[j] = pairs[i]

\* C4 as stated: for every integer n, sample returns exactly min(n, corpus
\* size) pairs of distinct corpus tokens, each with its own record.
C4_SampleReturnsMinForEveryN ==
    Returned("sample_scenes") =>
        /\ ret.status = "ok"
        /\ Len(ret.value) = Min(call.args[1], Len(data))
        /\ DistinctOwnPairs(ret.value)

\* C4 amended: for every n >= 0, sample returns exactly min(n, corpus size)
\* pairs of distinct corpus tokens, each with its own record; for n < 0 it
\* raises ValueError and returns nothing.
C4_SampleReturnsMinForNonNegativeN ==
    Returned("sample_scenes") =>
        IF call.args[1] >= 0
        THEN /\ ret.status = "ok"
             /\ Len(ret.value) = Min(call.args[1], Len(data))
             /\ DistinctOwnPairs(ret.value)
        ELSE ret = Raise("ValueError")

C4_Witness ==
    /\ Returned("sample_scenes")
    /\ call.args[1] > Len(data)
    /\ Len(data) >= 3
    /\ Len(ret.value) = Len(data)
    /\ [i \in DOMAIN ret.value |-> ret.value[i][1]] # scene_tokens

ValidLabel(l) == \E i \in DOMAIN ALL_SCENES : ALL_SCENES[i] = l

\* the position of a returned pair in the corpus
Position(pair) == CHOOSE i \in DOMAIN data : data[i][1] = pair[1]

\* v lists, in corpus order and once each, the items of the corpus that
\* satisfy Wanted
ListsInOrder(v, Wanted(_)) ==
    /\ \A i \in DOMAIN v : \E j \in DOMAIN data : data[j] = v[i] /\ Wanted(data[j][2].labels)
    /\ \A j \in DOMAIN data : Wanted(data[j][2].labels) => \E i \in DOMAIN v : v[i] = data[j]
    /\ \A i, j \in DOMAIN v : i < j => Position(v[i]) < Position(v[j])

\* C5: for a list L of valid labels, scenesByLabels(L, ANY) returns, in corpus
\* order and once each, exactly the records with a label in L, and
\* scenesByLabels(L, ALL) exactly the records with every label of L; with L
\* empty, ALL returns every record and ANY none.
C5_QueryByLabelsAnyAll ==
    Returned("get_scenes_by_labels")
    /\ (\A i \in DOMAIN call.args[1] : ValidLabel(call.args[1][i]))
    /\ call.args[2] \in {"any", "all"} =>
        LET L == call.args[1]
            HasSome(labels) == \E i \in DOMAIN L : \E j \in DOMAIN labels : labels[j] = L[i]
            HasEvery(labels) == \A i \in DOMAIN L : \E j \in DOMAIN labels : labels[j] = L[i]
        IN /\ ret.status = "ok"
           /\ call.args[2] = "any" => ListsInOrder(ret.value, HasSome)
           /\ call.args[2] = "all" => ListsInOrder(ret.value, HasEvery)
           /\ L = <<>> /\ call.args[2] = "any" => ret.value = <<>>
           /\ L = <<>> /\ call.args[2] = "all" => ret.value = data

C5_Witness ==
    /\ Returned("get_scenes_by_labels")
    /\ call.args = <<<<"PED_CROSSING", "INTERSECTION">>, "all">>
    /\ Len(data) = 2
    /\ Len(ret.value) = 1
    /\ ret.value[1] = data[2]
    /\ Range(data[1][2].labels) = {"PED_CROSSING"}

\* the call c is a label query with a label outside the 10 labels
InvalidLabelQuery(c) ==
    \/ c.op = "get_scenes_by_label" /\ ~ValidLabel(c.args[1])
    \/ c.op = "get_scenes_by_labels"
       /\ \E i \in DOMAIN c.args[1] : ~ValidLabel(c.args[1][i])

\* C6: a label query with a label outside the 10 labels raises ValueError (the
\* InvalidLabelError) for every mode and corpus, returns no records and leaves
\* the corpus, the generator and the files as they were.
C6_InvalidLabelRaisesAndChangesNothing ==
    [][pc = "idle" /\ pc' = "returned" /\ InvalidLabelQuery(call') =>
           /\ ret' = Raise("ValueError")
           /\ UNCHANGED <<data, scene_tokens, rng, files>>]_vars

C6_Witness ==
    /\ Returned("get_scenes_by_labels")
    /\ call.args = <<<<"PED_CROSSING", "NOT_A_LABEL">>, "any">>
    /\ ret = Raise("ValueError")
    /\ Len(data) = 2
    /\ \A i \in DOMAIN data : "PED_CROSSING" \in Range(data[i][2].labels)

\* C7: exportLabelsOnly writes a mapping whose keys are exactly the requested
\* tokens that are in the corpus (every corpus token when none is requested),
\* each with its record's label sequence in order; absent tokens are skipped
\* without error, and reading the document back gives those label sequences.
C7_ExportIsTheLabelsOfTheRequestedScenes ==
    Returned("export_labels_only") =>
        LET requested == IF call.args[2] = None THEN scene_tokens ELSE call.args[2][1]
            written == files[call.args[1]]
            readBack == JsonLoad(written[1])
        IN /\ ret.status = "ok"
           /\ written # None
           /\ Injective(Keys(readBack))
           /\ Range(Keys(readBack)) = Range(requested) \cap Range(Keys(data))
           /\ \A i \in DOMAIN readBack :
                 \E j \in DOMAIN data : /\ data[j][1] = readBack[i][1]
                                        /\ data[j][2].labels = readBack[i][2]

C7_Witness ==
    /\ Returned("export_labels_only")
    /\ call.args[2] = Some(<<AbsentToken, "b">>)
    /\ Len(data) = 2
    /\ JsonLoad(files[call.args[1]][1]) = <<<<"b", <<"INTERSECTION", "PED_CROSSING">>>>>>

\* C8: no operation, failing or not, changes the corpus: the token sequence and
\* every record stay as loaded.
C8_CorpusNeverChanges ==
    [][data' = data /\ scene_tokens' = scene_tokens]_vars

C8_Witness ==
    /\ Returned("split_dataset")
    /\ ret.status = "ok"
    /\ Len(scene_tokens) = 2
    /\ Concat3(ret.value) # scene_tokens
    /\ scene_tokens = Keys(data)
    /\ files["labels.json"] # None

\* the sum over the records from the i-th on of the number of labels
RECURSIVE TotalLabelsFrom(_)
TotalLabelsFrom(i) ==
    IF i > Len(data) THEN 0 ELSE Len(data[i][2].labels) + TotalLabelsFrom(i + 1)

\* the sum of the values of a mapping, and of key * value
RECURSIVE SumOfValues(_, _)
SumOfValues(m, i) == IF i > Len(m) THEN 0 ELSE m[i][2] + SumOfValues(m, i + 1)

RECURSIVE SumOfKeyTimesValue(_, _)
SumOfKeyTimesValue(m, i) ==
    IF i > Len(m) THEN 0 ELSE m[i][1] * m[i][2] + SumOfKeyTimesValue(m, i + 1)

\* C9: the label occurrence counts sum to the sum over the records of the
\* number of labels, which is also the sum over k of k times the histogram's
\* value at k; the histogram's values sum to the corpus size.  Labels outside
\* the 10 labels are counted as they are.
C9_StatisticsSumConsistently ==
    /\ Returned("get_label_statistics") =>
          SumOfValues(ret.value, 1) = TotalLabelsFrom(1)
    /\ Returned("get_multi_label_statistics") =>
          /\ SumOfKeyTimesValue(ret.value, 1) = TotalLabelsFrom(1)
          /\ SumOfValues(ret.value, 1) = Len(data)

C9_Witness ==
    /\ Returned("get_label_statistics")
    /\ Len(data) = 2
    /\ data[1][2].labels = <<"PED_CROSSING", "PED_CROSSING">>
    /\ data[2][2].labels = <<"PED_CROSSING", "FOG">>
    /\ ret.value = <<<<"PED_CROSSING", 3>>, <<"FOG", 1>>>>

\* the call that returned has the key of the remembered call, which returned
\* earlier
RepeatsRef(n) ==
    /\ pc = "returned"
    /\ Len(key) = n
    /\ ref # None
    /\ ref[1].key = key
    /\ ~ref[1].fresh

\* C2: a seeded sample or split returns what the same call with the same seed
\* returned before on this corpus, whatever was executed before or between.
C2_SeededDrawRepeats == RepeatsRef(1) => ret = ref[1].ret

C2_Witness ==
    /\ RepeatsRef(1)
    /\ call.op = "split_dataset"
    /\ ret.status = "ok"
    /\ Concat3(ret.value) # scene_tokens
    /\ files["labels.json"] # None

\* C10: an unseeded sample or split made directly after a seeded call returns
\* what it returned before after that same seeded call; a split rejected for
\* its ratios between the two does not change that.
C10_UnseededAfterSeededRepeats == RepeatsRef(2) => ret = ref[1].ret

C10_Witness ==
    /\ RepeatsRef(2)
    /\ key[1].op = "sample_scenes"
    /\ call.op = "split_dataset"
    /\ ret.status = "ok"
    /\ Concat3(ret.value) # scene_tokens

====
